---- MODULE Spec2Model ----
(***************************************************************************)
(* Model of c19frcheck: run.py (the command line pipeline) and             *)
(* import_data.py (the earlier ingester).                                  *)
(*                                                                         *)
(* A Python str is a sequence of one-character strings.  A raised          *)
(* exception is a value [exc |-> <class name>]; exc = "none" is a normal   *)
(* return.                                                                 *)
(***************************************************************************)
EXTENDS Integers, Sequences, FiniteSets, TLC

VARIABLES
    DATE_RANGES,  \* run.py DATE_RANGES, in insertion order
    files,        \* data/<name>: the lines of each death-record file
    sheets,       \* data/<name>: the first sheet of each pyramid workbook
    tables,       \* data.sqlite, the tables that exist
    deces,        \* data.sqlite, committed rows of table deces (run.py)
    ages,         \* data.sqlite, committed rows of table ages (run.py)
    deaths,       \* data.sqlite, committed rows of table deaths (import_data.py)
    cmd,          \* the command line being run, or the last one run
    todo,         \* the steps of it still to run
    outcome,      \* how its last step ended
    nbQueries,    \* aggregation queries issued by the running report
    computed,     \* the mappings the last report computed
    plotted,      \* the arrays the last report handed to plt.plot
    args,         \* arguments of a direct call of one function
    result        \* what that call returned or raised

vars == <<DATE_RANGES, files, sheets, tables, deces, ages, deaths, cmd, todo,
          outcome, nbQueries, computed, plotted, args, result>>

pipelineVars == <<DATE_RANGES, files, sheets, tables, deces, ages, deaths, cmd,
                  todo, outcome, nbQueries, computed, plotted>>

(***************************************************************************)
(* Python values                                                           *)
(***************************************************************************)
None == <<"None">>

Truthy(s) == s # None /\ Len(s) > 0

Min(a, b) == IF a <= b THEN a ELSE b

\* s[a:b] for 0 <= a <= b: clipped to the string, never an IndexError
Slice(s, a, b) ==
    IF a >= Min(b, Len(s)) THEN <<>> ELSE SubSeq(s, a + 1, Min(b, Len(s)))

DigitChars == <<"0", "1", "2", "3", "4", "5", "6", "7", "8", "9">>

IsDigit(c) == \E i \in 1..10 : DigitChars[i] = c

DigitVal(c) == (CHOOSE i \in 1..10 : DigitChars[i] = c) - 1

\* code point of the characters the model uses
Ord(c) ==
    IF c = "\n" THEN 10
    ELSE IF c = " " THEN 32
    ELSE IF c = "+" THEN 43
    ELSE IF c = "-" THEN 45
    ELSE IF IsDigit(c) THEN 48 + DigitVal(c)
    ELSE IF c = "e" THEN 101
    ELSE IF c = "t" THEN 116
    ELSE 120

RECURSIVE StrLeq(_, _)
\* s <= t for two str, as SQLite's BINARY collation and Python compare them
StrLeq(s, t) ==
    IF s = <<>> THEN TRUE
    ELSE IF t = <<>> THEN FALSE
    ELSE IF Ord(Head(s)) # Ord(Head(t)) THEN Ord(Head(s)) < Ord(Head(t))
    ELSE StrLeq(Tail(s), Tail(t))

\* the f-string forms {:02d} and {:04d} used to write the sample inputs
D2(n) == <<DigitChars[((n \div 10) % 10) + 1], DigitChars[(n % 10) + 1]>>

D4(n) == D2(n \div 100) \o D2(n % 100)

(***************************************************************************)
(* run.py, parsing                                                         *)
(***************************************************************************)
Raise(e) == [exc |-> e, val |-> <<>>]

Return(v) == [exc |-> "none", val |-> v]

ParseSex(val) ==
    IF val = "1" THEN Return(<<"M">>)
    ELSE IF val = "2" THEN Return(<<"F">>)
    ELSE Raise("ParseSexError")

Zeros2 == <<"0", "0">>

Zeros4 == <<"0", "0", "0", "0">>

\* a slip: the default day is never looked at
DateOfNoDefaultDay(year, month, day, def_month, def_day) ==
    IF year = Zeros4 THEN Raise("DateParseError")
    ELSE IF month = Zeros2 /\ ~Truthy(def_month) THEN Raise("DateParseError")
    ELSE IF day = Zeros2 THEN Raise("DateParseError")
    ELSE Return(year \o <<"-">> \o (IF month = Zeros2 THEN def_month ELSE month)
                \o <<"-">> \o day)

\* the body of the try: of _parse_date, given the three slices; every raise
\* inside it is re-raised as DateParseError
DateOf(year, month, day, def_month, def_day) ==
    IF year = Zeros4 THEN Raise("DateParseError")
    ELSE IF month = Zeros2 /\ ~Truthy(def_month) THEN Raise("DateParseError")
    ELSE IF day = Zeros2 /\ ~Truthy(def_day) THEN Raise("DateParseError")
    ELSE Return(year \o <<"-">> \o (IF month = Zeros2 THEN def_month ELSE month)
                \o <<"-">> \o (IF day = Zeros2 THEN def_day ELSE day))

\* _parse_date: the three slices cannot raise
ParseDate(val, def_month, def_day) ==
    DateOf(Slice(val, 0, 4), Slice(val, 4, 6), Slice(val, 6, 8), def_month, def_day)

(***************************************************************************)
(* run.py, utils: datetime.strptime(date, '%Y-%m-%d'), timedelta.days      *)
(***************************************************************************)
IsLeap(y) == (y % 4 = 0 /\ y % 100 # 0) \/ y % 400 = 0

DaysInMonth(y, m) ==
    IF m = 2 THEN (IF IsLeap(y) THEN 29 ELSE 28)
    ELSE IF m \in {4, 6, 9, 11} THEN 30
    ELSE 31

RECURSIVE DaysBeforeMonth(_, _)
DaysBeforeMonth(y, m) ==
    IF m <= 1 THEN 0 ELSE DaysBeforeMonth(y, m - 1) + DaysInMonth(y, m - 1)

\* the days before 1 January of year p + 1
DaysBeforeYear(p) == 365 * p + (p \div 4) - (p \div 100) + (p \div 400)

\* datetime.toordinal(): day 1 is 0001-01-01
Ordinal(y, m, d) == DaysBeforeYear(y - 1) + DaysBeforeMonth(y, m) + d

\* %m is 1[0-2]|0[1-9]|[1-9]
MonthField(s) ==
    \/ Len(s) = 2 /\ s[1] = "1" /\ s[2] \in {"0", "1", "2"}
    \/ Len(s) = 2 /\ s[1] = "0" /\ IsDigit(s[2]) /\ s[2] # "0"
    \/ Len(s) = 1 /\ IsDigit(s[1]) /\ s[1] # "0"

\* %d is 3[0-1]|[1-2]\d|0[1-9]|[1-9]| [1-9]
DayField(s) ==
    \/ Len(s) = 2 /\ s[1] = "3" /\ s[2] \in {"0", "1"}
    \/ Len(s) = 2 /\ s[1] \in {"1", "2"} /\ IsDigit(s[2])
    \/ Len(s) = 2 /\ s[1] \in {"0", " "} /\ IsDigit(s[2]) /\ s[2] # "0"
    \/ Len(s) = 1 /\ IsDigit(s[1]) /\ s[1] # "0"

FieldVal(s) ==
    IF Len(s) = 1 THEN DigitVal(s[1])
    ELSE IF s[1] = " " THEN DigitVal(s[2])
    ELSE 10 * DigitVal(s[1]) + DigitVal(s[2])

\* datetime(y, m, d): ValueError when it names no day of the calendar
CalendarDay(y, m, d) ==
    IF y < 1 \/ d > DaysInMonth(y, m) THEN Raise("ValueError")
    ELSE Return(Ordinal(y, m, d))

\* the fields the format matched
MatchedFields(y, month, day) ==
    IF ~MonthField(month) \/ ~DayField(day) THEN Raise("ValueError")
    ELSE CalendarDay(y, FieldVal(month), FieldVal(day))

\* %Y is \d\d\d\d and each "-" is itself; mlen is the length of the month field
Shaped(date, mlen) ==
    /\ Len(date) >= 5 + mlen + 2
    /\ \A i \in 1..4 : IsDigit(date[i])
    /\ date[5] = "-"
    /\ date[6 + mlen] = "-"

StrptimeWith(date, mlen) ==
    IF ~Shaped(date, mlen) THEN Raise("ValueError")
    ELSE MatchedFields(1000 * DigitVal(date[1]) + 100 * DigitVal(date[2])
                       + 10 * DigitVal(date[3]) + DigitVal(date[4]),
                       SubSeq(date, 6, 5 + mlen),
                       SubSeq(date, 7 + mlen, Len(date)))

\* _to_dt: the day number of the date, or ValueError when the text does not
\* match the format, has text left over, or names no day of the calendar.
\* The month field ends before the second "-"
ToDt(date) == StrptimeWith(date, IF Len(date) >= 7 /\ date[7] = "-" THEN 1 ELSE 2)

\* _dt_to_annees: int(dt.days / 365.25); int() truncates toward zero, and
\* 365.25 = 1461/4 is exact in binary floating point
DtToAnnees(days) ==
    IF days >= 0 THEN (4 * days) \div 1461 ELSE -((4 * (-days)) \div 1461)

(***************************************************************************)
(* run.py, _parse_deces_file; import_data.py, _import_data                 *)
(***************************************************************************)
SexOffset == 80

BirthStart == 81

BirthEnd == 89

DeathStart == 154

DeathEnd == 162

\* the dict of one line, or the first exception of its three fields
ParsedFields(sex, naissance, dc) ==
    IF sex.exc # "none" THEN Raise(sex.exc)
    ELSE IF naissance.exc # "none" THEN Raise(naissance.exc)
    ELSE IF dc.exc # "none" THEN Raise(dc.exc)
    ELSE Return([sex |-> sex.val, date_naissance |-> naissance.val,
                 date_deces |-> dc.val])

\* the body of the try: statement of both ingesters.  line[80] raises
\* IndexError on a line of 80 characters or fewer; the slices do not raise
ParseLine(line, def_month, def_day) ==
    IF Len(line) <= SexOffset THEN Raise("IndexError")
    ELSE ParsedFields(ParseSex(line[SexOffset + 1]),
                      ParseDate(Slice(line, BirthStart, BirthEnd), def_month, def_day),
                      ParseDate(Slice(line, DeathStart, DeathEnd), None, None))

IsParseError(e) == e \in {"ParseSexError", "DateParseError"}

RECURSIVE ParseDecesLoop(_, _, _, _)
RECURSIVE ParseDecesNext(_, _, _, _, _)
\* the for loop of _parse_deces_file from line i on
ParseDecesLoop(lines, i, res, errors) ==
    IF i > Len(lines) THEN [exc |-> "none", res |-> res, errors |-> errors]
    ELSE ParseDecesNext(lines, i, res, errors,
                        ParseLine(lines[i], <<"0", "6">>, <<"1", "5">>))

\* what the loop does with the outcome of line i: only a ParseError is
\* caught, any other exception leaves the function
ParseDecesNext(lines, i, res, errors, parsed) ==
    IF parsed.exc = "none"
    THEN ParseDecesLoop(lines, i + 1, Append(res, parsed.val), errors)
    ELSE IF IsParseError(parsed.exc)
    THEN ParseDecesLoop(lines, i + 1, res, Append(errors, parsed.exc))
    ELSE [exc |-> parsed.exc, res |-> res, errors |-> errors]

\* the summary line printed after the loop divides by num_line-1
DecesSummary(r, nbLines) ==
    IF r.exc = "none" /\ nbLines = 0
    THEN [exc |-> "ZeroDivisionError", res |-> r.res, errors |-> r.errors]
    ELSE r

\* _parse_deces_file
ParseDecesFile(lines) == DecesSummary(ParseDecesLoop(lines, 1, <<>>, <<>>), Len(lines))

RECURSIVE ImportTxtLoop(_, _, _, _)
RECURSIVE ImportTxtNext(_, _, _, _, _)
\* import_data.py, the for loop over the lines of one file
ImportTxtLoop(lines, i, rows, nb_errors) ==
    IF i > Len(lines) THEN [exc |-> "none", rows |-> rows, nb_errors |-> nb_errors]
    ELSE ImportTxtNext(lines, i, rows, nb_errors,
                       ParseLine(lines[i], <<"0", "1">>, <<"0", "1">>))

\* a parsed line is inserted in the open transaction; nb_errors counts the
\* ParseErrors by class
ImportTxtNext(lines, i, rows, nb_errors, parsed) ==
    IF parsed.exc = "none"
    THEN ImportTxtLoop(lines, i + 1,
             Append(rows, [sex |-> parsed.val.sex,
                           birth_date |-> parsed.val.date_naissance,
                           death_date |-> parsed.val.date_deces]),
             nb_errors)
    ELSE IF parsed.exc = "ParseSexError"
    THEN ImportTxtLoop(lines, i + 1, rows, [nb_errors EXCEPT !.sex = @ + 1])
    ELSE IF parsed.exc = "DateParseError"
    THEN ImportTxtLoop(lines, i + 1, rows, [nb_errors EXCEPT !.date = @ + 1])
    ELSE [exc |-> parsed.exc, rows |-> rows, nb_errors |-> nb_errors]

ImportTxtFile(lines) == ImportTxtLoop(lines, 1, <<>>, [sex |-> 0, date |-> 0])

(***************************************************************************)
(* run.py, _parse_pda_file.  A cell value is a str (xlrd gives '' for an   *)
(* empty cell) or a number.                                                *)
(***************************************************************************)
Text(s) == [t |-> "str", s |-> s, n |-> 0]

Num(n) == [t |-> "num", s |-> <<>>, n |-> n]

EmptyCell == Text(<<>>)

RECURSIVE OnlyDigits(_)
\* re.sub("[^0-9]", "", s)
OnlyDigits(s) ==
    IF s = <<>> THEN <<>>
    ELSE (IF IsDigit(Head(s)) THEN <<Head(s)>> ELSE <<>>) \o OnlyDigits(Tail(s))

RECURSIVE DigitsValue(_)
DigitsValue(s) ==
    IF s = <<>> THEN 0 ELSE 10 * DigitsValue(SubSeq(s, 1, Len(s) - 1)) + DigitVal(s[Len(s)])

\* int(s) of a str: ValueError unless s is a run of digits
IntOfStr(s) ==
    IF s # <<>> /\ \A i \in 1..Len(s) : IsDigit(s[i]) THEN Return(DigitsValue(s))
    ELSE Raise("ValueError")

\* sheet.cell(i, j).value with 0-based i and j
CellAt(sheet, i, j) ==
    IF i + 1 > Len(sheet) \/ j + 1 > Len(sheet[i + 1]) THEN Raise("IndexError")
    ELSE Return(sheet[i + 1][j + 1])

NbPdaRows == 3

\* DATA_FILES_CONFS.  The source reads rows (7, 107) of each workbook; the
\* model reads NbPdaRows rows from the same first row
PdaFirstRow == 7

PdaLastRow == PdaFirstRow + NbPdaRows - 1

AgeCol == 2

NbCol == 5

DATA_FILES_CONFS ==
    << [type |-> "deces", name |-> "deces-2017.txt"],
       [type |-> "deces", name |-> "deces-2020.txt"],
       [type |-> "pyramide-des-ages", annee |-> 2017,
        name |-> "pyramide-des-ages-2017.xls",
        cols |-> [age |-> AgeCol, nb |-> NbCol], rows |-> <<PdaFirstRow, PdaLastRow>>],
       [type |-> "pyramide-des-ages", annee |-> 2020,
        name |-> "pyramide-des-ages-2020.xls",
        cols |-> [age |-> AgeCol, nb |-> NbCol], rows |-> <<PdaFirstRow, PdaLastRow>>] >>

IsEmpty(cell) == cell.t = "str" /\ cell.s = <<>>

\* res.append({...}) once int(nb) is known
PdaBin(annee, age, nb) ==
    IF nb.exc # "none" THEN Raise(nb.exc)
    ELSE Return([annee |-> annee, age |-> age, nb |-> nb.val])

\* the nb column of the row, once int(age) is known
PdaNb(annee, age, nbCell) ==
    IF age.exc # "none" THEN Raise(age.exc)
    ELSE IF nbCell.exc # "none" THEN Raise(nbCell.exc)
    ELSE IF IsEmpty(nbCell.val) THEN Raise("AssertionError")
    ELSE PdaBin(annee, age.val,
                IF nbCell.val.t = "str" THEN IntOfStr(nbCell.val.s)
                ELSE Return(nbCell.val.n))

\* the age column of the row: a str is stripped of its non-digits
PdaAge(annee, ageCell, nbCell) ==
    IF ageCell.exc # "none" THEN Raise(ageCell.exc)
    ELSE IF IsEmpty(ageCell.val) THEN Raise("AssertionError")
    ELSE PdaNb(annee,
               IF ageCell.val.t = "str" THEN IntOfStr(OnlyDigits(ageCell.val.s))
               ELSE Return(ageCell.val.n),
               nbCell)

\* one turn of the loop of _parse_pda_file: the bin of row i, or the exception
PdaRow(conf, sheet, i) ==
    PdaAge(conf.annee, CellAt(sheet, i, conf.cols.age - 1),
           CellAt(sheet, i, conf.cols.nb - 1))

RECURSIVE PdaLoop(_, _, _, _)
RECURSIVE PdaNext(_, _, _, _, _)
\* for i in range(first_row-1, last_row), from i on
PdaLoop(conf, sheet, i, res) ==
    IF i >= conf.rows[2] THEN Return(res)
    ELSE PdaNext(conf, sheet, i, res, PdaRow(conf, sheet, i))

PdaNext(conf, sheet, i, res, row) ==
    IF row.exc # "none" THEN Raise(row.exc)
    ELSE PdaLoop(conf, sheet, i + 1, Append(res, row.val))

RECURSIVE PdaLoopUntilEmpty(_, _, _, _)
RECURSIVE PdaNextUntilEmpty(_, _, _, _, _)
PdaLoopUntilEmpty(conf, sheet, i, res) ==
    IF i >= conf.rows[2] THEN Return(res)
    ELSE PdaNextUntilEmpty(conf, sheet, i, res, PdaRow(conf, sheet, i))

PdaNextUntilEmpty(conf, sheet, i, res, row) ==
    IF row.exc = "AssertionError" THEN Return(res)
    ELSE IF row.exc # "none" THEN Raise(row.exc)
    ELSE PdaLoopUntilEmpty(conf, sheet, i + 1, Append(res, row.val))

\* a slip: a row with an empty cell ends the loop and the bins read so far
\* are returned
ParsePdaFileUntilEmpty(conf, sheet) ==
    PdaLoopUntilEmpty(conf, sheet, conf.rows[1] - 1, <<>>)

\* _parse_pda_file
ParsePdaFile(conf, sheet) == PdaLoop(conf, sheet, conf.rows[1] - 1, <<>>)

(***************************************************************************)
(* run.py, _init_db and _import_data.  Each `with _db_connect() as conn:`  *)
(* commits when its block ends and rolls back when an exception leaves it. *)
(***************************************************************************)
RECURSIVE ImportLoop(_, _, _, _, _, _)
RECURSIVE InsertDecesInDb(_, _, _, _, _, _, _)
RECURSIVE InsertAgesInDb(_, _, _, _, _, _, _)
\* the for loop of _import_data from conf i on; dc and ag are the tables as
\* the open transaction sees them
ImportLoop(fs, sh, tb, i, dc, ag) ==
    IF i > Len(DATA_FILES_CONFS) THEN [exc |-> "none", deces |-> dc, ages |-> ag]
    ELSE IF DATA_FILES_CONFS[i].type = "deces"
    THEN InsertDecesInDb(fs, sh, tb, i, dc, ag,
                         ParseDecesFile(fs[DATA_FILES_CONFS[i].name]))
    ELSE InsertAgesInDb(fs, sh, tb, i, dc, ag,
                        ParsePdaFile(DATA_FILES_CONFS[i], sh[DATA_FILES_CONFS[i].name]))

\* _insert_deces_in_db, then the next conf; an INSERT into a table that does
\* not exist raises sqlite3.OperationalError
InsertDecesInDb(fs, sh, tb, i, dc, ag, datas) ==
    IF datas.exc # "none" THEN [exc |-> datas.exc, deces |-> dc, ages |-> ag]
    ELSE IF "deces" \notin tb THEN [exc |-> "OperationalError", deces |-> dc, ages |-> ag]
    ELSE ImportLoop(fs, sh, tb, i + 1, dc \o datas.res, ag)

\* _insert_ages_in_db, then the next conf
InsertAgesInDb(fs, sh, tb, i, dc, ag, datas) ==
    IF datas.exc # "none" THEN [exc |-> datas.exc, deces |-> dc, ages |-> ag]
    ELSE IF "ages" \notin tb THEN [exc |-> "OperationalError", deces |-> dc, ages |-> ag]
    ELSE ImportLoop(fs, sh, tb, i + 1, dc, ag \o datas.val)

\* what the connection leaves in the tables when its block ends
CommitOrRollback(r, dc, ag) ==
    IF r.exc = "none" THEN r ELSE [exc |-> r.exc, deces |-> dc, ages |-> ag]

\* _import_data: the tables after it, and the exception that left it
ImportData(fs, sh, tb, dc, ag) ==
    CommitOrRollback(ImportLoop(fs, sh, tb, 1, dc, ag), dc, ag)

RECURSIVE ImportTxtFiles(_, _, _)
RECURSIVE InsertDeathsInDb(_, _, _, _)
\* import_data.py, _import_data over the files glob returned, in that order
ImportTxtFiles(fs, order, rows) ==
    IF order = <<>> THEN [exc |-> "none", rows |-> rows]
    ELSE InsertDeathsInDb(fs, order, rows, ImportTxtFile(fs[Head(order)]))

InsertDeathsInDb(fs, order, rows, r) ==
    IF r.exc # "none" THEN [exc |-> r.exc, rows |-> rows]
    ELSE ImportTxtFiles(fs, Tail(order), rows \o r.rows)

(***************************************************************************)
(* run.py, the reports.  A dict is a function on its keys; a SELECT        *)
(* returns rows in insertion order.                                        *)
(***************************************************************************)
EmptyDict == <<>>

DictSet(d, k, v) == [x \in (DOMAIN d) \cup {k} |-> IF x = k THEN v ELSE d[x]]

DictGet(d, k, default) == IF k \in DOMAIN d THEN d[k] ELSE default

Grippe == "grippe 2016/2017"

Covid == "covid 2019/2020"

\* DATE_RANGES[key]
RangeOf(ranges, key) ==
    ranges[CHOOSE i \in 1..Len(ranges) : ranges[i].key = key].range

NoDuration == [set |-> FALSE, days |-> 0]

RECURSIVE DurationLoop(_, _, _)
RECURSIVE DurationNext(_, _, _, _, _)
\* the for loop of _assert_all_date_ranges_have_same_duration from item i on
DurationLoop(ranges, i, duration) ==
    IF i > Len(ranges) THEN "none"
    ELSE DurationNext(ranges, i, duration,
                      ToDt(ranges[i].range[2]), ToDt(ranges[i].range[1]))

\* dur = _to_dt(end_date) - _to_dt(start_date), kept if it is the first and
\* asserted equal to the first otherwise
DurationNext(ranges, i, duration, e, s) ==
    IF e.exc # "none" THEN e.exc
    ELSE IF s.exc # "none" THEN s.exc
    ELSE IF ~duration.set
    THEN DurationLoop(ranges, i + 1, [set |-> TRUE, days |-> e.val - s.val])
    ELSE IF duration.days # e.val - s.val THEN "AssertionError"
    ELSE DurationLoop(ranges, i + 1, duration)

\* a slip: nothing is asserted
AssertNothing(ranges) == "none"

\* the exception _assert_all_date_ranges_have_same_duration raises, or "none"
AssertAllDateRangesHaveSameDuration(ranges) == DurationLoop(ranges, 1, NoDuration)

RECURSIVE SelectDeces(_, _)
\* SELECT ... FROM deces WHERE date_deces BETWEEN ? AND ?  (text comparison)
SelectDeces(rows, range) ==
    IF rows = <<>> THEN <<>>
    ELSE (IF StrLeq(range[1], Head(rows).date_deces)
             /\ StrLeq(Head(rows).date_deces, range[2])
          THEN <<Head(rows)>> ELSE <<>>)
         \o SelectDeces(Tail(rows), range)

RECURSIVE SelectAges(_, _)
\* SELECT age, nb FROM ages WHERE annee = ?
SelectAges(rows, annee) ==
    IF rows = <<>> THEN <<>>
    ELSE (IF Head(rows).annee = annee THEN <<Head(rows)>> ELSE <<>>)
         \o SelectAges(Tail(rows), annee)

RECURSIVE BuildPyramides(_, _, _)
\* pyramides_des_ages.setdefault(annee, {})[age] = nb, row after row
BuildPyramides(rows, i, acc) ==
    IF i > Len(rows) THEN acc
    ELSE BuildPyramides(rows, i + 1,
             DictSet(acc, rows[i].annee,
                     DictSet(DictGet(acc, rows[i].annee, EmptyDict),
                             rows[i].age, rows[i].nb)))

\* min(deces_age, 100)
MaxAge == 100

\* res[deces_age] += 1 on a defaultdict(int)
Increment(res, k) == DictSet(res, k, DictGet(res, k, 0) + 1)

RECURSIVE DecesParAgeLoop(_, _, _)
RECURSIVE DecesParAgeNext(_, _, _, _, _)
\* the for loop of the inner _compute_deces_par_age of the mortality report
DecesParAgeLoop(rows, i, res) ==
    IF i > Len(rows) THEN Return(res)
    ELSE DecesParAgeNext(rows, i, res,
                         ToDt(rows[i].date_naissance), ToDt(rows[i].date_deces))

DecesParAgeNext(rows, i, res, naissance_dt, deces_dt) ==
    IF naissance_dt.exc # "none" THEN Raise(naissance_dt.exc)
    ELSE IF deces_dt.exc # "none" THEN Raise(deces_dt.exc)
    ELSE DecesParAgeLoop(rows, i + 1,
             Increment(res, Min(DtToAnnees(deces_dt.val - naissance_dt.val), MaxAge)))

RateZero == [num |-> 0, den |-> 1]

\* nb / tot
PyDiv(nb, tot) ==
    IF tot = 0 THEN Raise("ZeroDivisionError") ELSE Return([num |-> nb, den |-> tot])

\* a slip: only a missing population is guarded
RateOfMissingOnly(nb, pda, age) ==
    IF age \in DOMAIN pda THEN PyDiv(nb, pda[age]) ELSE Return(RateZero)

\* res[age] = nb / tot if tot else 0, with tot = pda.get(age)
RateOf(nb, pda, age) ==
    IF age \in DOMAIN pda /\ pda[age] # 0 THEN PyDiv(nb, pda[age]) ELSE Return(RateZero)

\* the dict of the rates, or the exception one of them raised
RatesDict(rates) ==
    IF \E age \in DOMAIN rates : rates[age].exc # "none"
    THEN Raise("ZeroDivisionError")
    ELSE Return([age \in DOMAIN rates |-> rates[age].val])

\* the inner _compute_taux_mortalite_par_age
ComputeTaux(dcs, pda) ==
    RatesDict([age \in DOMAIN dcs |-> RateOf(dcs[age], pda, age)])

\* list(range(1, 101))
AgeRange == 1..100

\* [d.get(i, 0) for i in age_range]
Dense(d, default) == [i \in AgeRange |-> DictGet(d, i, default)]

NoReport == [kind |-> "none"]

Failed(e, q) == [exc |-> e, queries |-> q, computed |-> NoReport, plotted |-> NoReport]

\* the two plt.plot calls of the mortality report
TauxPlot(pda2017, pda2020, d2017, d2020, t2017, t2020) ==
    IF t2017.exc # "none" THEN Failed(t2017.exc, 3)
    ELSE IF t2020.exc # "none" THEN Failed(t2020.exc, 3)
    ELSE [exc |-> "none", queries |-> 3,
          computed |-> [kind |-> "taux", pda2017 |-> pda2017, pda2020 |-> pda2020,
                        deces2017 |-> d2017, deces2020 |-> d2020,
                        taux2017 |-> t2017.val, taux2020 |-> t2020.val],
          plotted |-> [kind |-> "taux", y2017 |-> Dense(t2017.val, RateZero),
                       y2020 |-> Dense(t2020.val, RateZero)]]

\* the rates of the mortality report; pyramides_des_ages[annee] raises KeyError
TauxRates(pyramides, d2017, d2020) ==
    IF d2017.exc # "none" THEN Failed(d2017.exc, 2)
    ELSE IF d2020.exc # "none" THEN Failed(d2020.exc, 3)
    ELSE IF 2017 \notin DOMAIN pyramides \/ 2020 \notin DOMAIN pyramides
    THEN Failed("KeyError", 3)
    ELSE TauxPlot(pyramides[2017], pyramides[2020], d2017.val, d2020.val,
                  ComputeTaux(d2017.val, pyramides[2017]),
                  ComputeTaux(d2020.val, pyramides[2020]))

\* the body of _compute_taux_mortalite_par_age after the duration check; a
\* SELECT from a table that does not exist raises sqlite3.OperationalError
TauxReport(ranges, tb, dc, ag) ==
    IF "ages" \notin tb THEN Failed("OperationalError", 1)
    ELSE IF "deces" \notin tb THEN Failed("OperationalError", 2)
    ELSE TauxRates(BuildPyramides(ag, 1, EmptyDict),
                   DecesParAgeLoop(SelectDeces(dc, RangeOf(ranges, Grippe)), 1, EmptyDict),
                   DecesParAgeLoop(SelectDeces(dc, RangeOf(ranges, Covid)), 1, EmptyDict))

RECURSIVE DecesParDateLoop(_, _, _)
RECURSIVE DecesParDateNext(_, _, _, _)
\* the for loop of the inner _compute_deces_par_date
DecesParDateLoop(rows, i, res) ==
    IF i > Len(rows) THEN Return(res)
    ELSE DecesParDateNext(rows, i, res, ToDt(rows[i].date_deces))

DecesParDateNext(rows, i, res, deces_dt) ==
    IF deces_dt.exc # "none" THEN Raise(deces_dt.exc)
    ELSE DecesParDateLoop(rows, i + 1, Increment(res, deces_dt.val))

RECURSIVE DatesFrom(_, _)
\* the while loop of _date_range_to_dates
DatesFrom(day, end) ==
    IF day <= end THEN <<day>> \o DatesFrom(day + 1, end) ELSE <<>>

\* _date_range_to_dates
DateRangeToDates(range) == DatesFrom(ToDt(range[1]).val, ToDt(range[2]).val)

\* [deces_par_date.get(d, 0) for d in dates]
Series(d, dates) == [k \in 1..Len(dates) |-> DictGet(d, dates[k], 0)]

\* the two plt.plot calls of the deaths-by-date report
DatePlot(d2017, d2020, dates_2017, dates_2020) ==
    IF d2017.exc # "none" THEN Failed(d2017.exc, 1)
    ELSE IF d2020.exc # "none" THEN Failed(d2020.exc, 2)
    ELSE [exc |-> "none", queries |-> 2,
          computed |-> [kind |-> "date", deces2017 |-> d2017.val,
                        deces2020 |-> d2020.val],
          plotted |-> [kind |-> "date", y2017 |-> Series(d2017.val, dates_2017),
                       y2020 |-> Series(d2020.val, dates_2020)]]

\* the body of _compute_deces_par_date after the duration check
DateReport(ranges, tb, dc) ==
    IF "deces" \notin tb THEN Failed("OperationalError", 1)
    ELSE DatePlot(DecesParDateLoop(SelectDeces(dc, RangeOf(ranges, Grippe)), 1, EmptyDict),
                  DecesParDateLoop(SelectDeces(dc, RangeOf(ranges, Covid)), 1, EmptyDict),
                  DateRangeToDates(RangeOf(ranges, Grippe)),
                  DateRangeToDates(RangeOf(ranges, Covid)))

RECURSIVE AgeDict(_, _, _)
\* {age: nb for age, nb in rows}
AgeDict(rows, i, acc) ==
    IF i > Len(rows) THEN acc
    ELSE AgeDict(rows, i + 1, DictSet(acc, rows[i].age, rows[i].nb))

\* the inner _compute_deces_par_age of the population report
PopulationParAge(ag, annee) == AgeDict(SelectAges(ag, annee), 1, EmptyDict)

\* the two plt.plot calls of the population report
PopPlot(p2017, p2020) ==
    [exc |-> "none", queries |-> 2,
     computed |-> [kind |-> "pop", pop2017 |-> p2017, pop2020 |-> p2020],
     plotted |-> [kind |-> "pop", y2017 |-> Dense(p2017, 0), y2020 |-> Dense(p2020, 0)]]

\* the body of _compute_deces_par_age (the population report) after the
\* duration check
PopReport(tb, ag) ==
    IF "ages" \notin tb THEN Failed("OperationalError", 1)
    ELSE PopPlot(PopulationParAge(ag, 2017), PopulationParAge(ag, 2020))

(***************************************************************************)
(* Sample inputs: lines of the fixed-width death-record format             *)
(***************************************************************************)
RECURSIVE Pad(_)
Pad(n) == IF n = 0 THEN <<>> ELSE <<" ">> \o Pad(n - 1)

MkLine(sex, birth, death) ==
    Pad(SexOffset) \o <<sex>> \o birth \o Pad(DeathStart - BirthEnd) \o death
    \o <<"\n">>

Ymd(y, m, d) == D4(y) \o D2(m) \o D2(d)

BlankLine == <<"\n">>

\* a record cut after the birth date
CutLine == SubSeq(MkLine("1", Ymd(1945, 6, 12), Ymd(2017, 1, 5)), 1, BirthEnd) \o <<"\n">>

IngestLines ==
    { MkLine("1", Ymd(1945, 6, 12), Ymd(2017, 1, 5)),
      MkLine("2", Ymd(1945, 0, 0), Ymd(2020, 4, 1)),
      MkLine("9", Ymd(1945, 6, 12), Ymd(2017, 1, 5)),
      MkLine("1", Ymd(0, 6, 12), Ymd(2017, 1, 5)),
      MkLine("1", Ymd(1945, 6, 12), Ymd(2017, 0, 5)),
      MkLine("2", Ymd(1945, 6, 12), Ymd(2017, 1, 0)),
      MkLine("2", Ymd(1945, 6, 12), Ymd(2017, 13, 32)),
      BlankLine,
      CutLine }

MaxLines == 2

RECURSIVE SeqsUpTo(_, _)
SeqsUpTo(S, n) ==
    IF n = 0 THEN {<<>>}
    ELSE LET shorter == SeqsUpTo(S, n - 1)
         IN  shorter \cup {Append(q, x) : q \in shorter, x \in S}

NoCall == [fn |-> "none"]

NotCalled == [called |-> FALSE]

IdlePipeline ==
    /\ DATE_RANGES = <<>>
    /\ files = <<>>
    /\ sheets = <<>>
    /\ tables = {}
    /\ deces = <<>>
    /\ ages = <<>>
    /\ deaths = <<>>
    /\ cmd = "none"
    /\ todo = <<>>
    /\ outcome = [exc |-> "none", at |-> "none"]
    /\ nbQueries = 0
    /\ computed = [kind |-> "none"]
    /\ plotted = [kind |-> "none"]

(***************************************************************************)
(* Sample inputs of the pipeline                                           *)
(***************************************************************************)
\* born 1918-06-12, died in the 2017 window at 98
Line98 == MkLine("1", Ymd(1918, 6, 12), Ymd(2017, 1, 5))

\* born 1945-00-00 (read as 1945-06-15), died in the 2017 window at 71
Line71 == MkLine("2", Ymd(1945, 0, 0), Ymd(2017, 1, 5))

\* born 1916-01-01, died 2017-01-06 at 101
Line101 == MkLine("2", Ymd(1916, 1, 1), Ymd(2017, 1, 6))

\* died on "January 32"
LineJan32 == MkLine("1", Ymd(1945, 6, 12), Ymd(2017, 1, 32))

\* day of death padded with a space: "201701 5"
LineSpaceDay == MkLine("1", Ymd(1918, 6, 12), D4(2017) \o D2(1) \o <<" ", "5">>)

\* born 2017-00-00 (read as 2017-06-15), died 2017-01-05
LineBeforeBirth == MkLine("1", Ymd(2017, 0, 0), Ymd(2017, 1, 5))

LineBadSex == MkLine("9", Ymd(1918, 6, 12), Ymd(2017, 1, 5))

Line2020 == MkLine("2", Ymd(1921, 11, 30), Ymd(2020, 4, 1))

Files2017 ==
    { <<>>,
      <<Line98>>,
      <<Line98, Line71, Line101>>,
      <<Line98, LineJan32>>,
      <<LineSpaceDay>>,
      <<LineBadSex, Line98>>,
      <<Line98, BlankLine>>,
      <<LineBeforeBirth>> }

Files2020 == { <<Line2020>> }

HeaderRow == [j \in 1..NbCol |-> Text(<<"x">>)]

DataRow(age, nb) == [j \in 1..NbCol |-> IF j = AgeCol THEN age ELSE IF j = NbCol THEN nb ELSE EmptyCell]

CentEtPlus == Text(<<"1", "0", "0", " ", "e", "t", " ", "+">>)

\* the label of data row k of n: ages 101-n .. 99, then "100 et +"
AgeLabel(k, n) == IF k = n THEN CentEtPlus ELSE Num(MaxAge - n + k)

\* a well-formed sheet
GoodSheet(base) ==
    [i \in 1..PdaLastRow |->
        IF i < PdaFirstRow THEN HeaderRow
        ELSE DataRow(AgeLabel(i - PdaFirstRow + 1, NbPdaRows), Num(base * (i - PdaFirstRow + 1)))]

SheetEmptyNb(base) ==
    [GoodSheet(base) EXCEPT ![PdaFirstRow + 1] = DataRow(AgeLabel(2, NbPdaRows), EmptyCell)]

SheetEmptyAge(base) ==
    [GoodSheet(base) EXCEPT ![PdaLastRow] = DataRow(EmptyCell, Num(base))]

\* the first two data rows carry the same age
SheetTwoBins(base) ==
    [GoodSheet(base) EXCEPT ![PdaFirstRow] = DataRow(AgeLabel(2, NbPdaRows), Num(base))]

\* no population for the first age
SheetZero(base) ==
    [GoodSheet(base) EXCEPT ![PdaFirstRow] = DataRow(AgeLabel(1, NbPdaRows), Num(0))]

\* the sheet ends one row early
SheetShort(base) == SubSeq(GoodSheet(base), 1, PdaLastRow - 1)

\* the workbooks of 2017 and of 2020
SheetPairs ==
    { <<GoodSheet(10), GoodSheet(20)>>,
      <<SheetEmptyNb(10), GoodSheet(20)>>,
      <<SheetTwoBins(10), GoodSheet(20)>>,
      <<SheetZero(10), GoodSheet(20)>>,
      <<GoodSheet(10), SheetEmptyAge(20)>>,
      <<GoodSheet(10), SheetShort(20)>> }

Iso(y, m, d) == D4(y) \o <<"-">> \o D2(m) \o <<"-">> \o D2(d)

Window(key, start, end) == [key |-> key, range |-> <<start, end>>]

\* DATE_RANGES of run.py, and other tables of windows
DateRangesOfSource ==
    << Window(Grippe, Iso(2017, 1, 1), Iso(2017, 2, 1)),
       Window(Covid, Iso(2020, 3, 20), Iso(2020, 4, 20)) >>

DateRangesChoices ==
    { DateRangesOfSource,
      << Window(Grippe, Iso(2017, 1, 5), Iso(2017, 1, 6)),
         Window(Covid, Iso(2020, 4, 1), Iso(2020, 4, 2)),
         Window("x", Iso(2019, 12, 31), Iso(2020, 1, 1)) >>,
      << Window(Grippe, Iso(2017, 1, 1), Iso(2017, 2, 1)),
         Window(Covid, Iso(2020, 3, 20), Iso(2020, 4, 19)) >>,
      << Window(Grippe, Iso(2017, 1, 5), Iso(2017, 1, 6)),
         Window(Covid, Iso(2020, 4, 1), Iso(2020, 4, 2)),
         Window("x", Iso(2019, 12, 31), Iso(2020, 1, 2)) >>,
      << Window("x", Iso(2019, 12, 31), Iso(2020, 1, 2)),
         Window(Grippe, Iso(2017, 1, 5), Iso(2017, 1, 6)),
         Window(Covid, Iso(2020, 4, 1), Iso(2020, 4, 2)) >> }

(***************************************************************************)
(* The command lines of run.py and import_data.py                          *)
(***************************************************************************)
Reports == {"_compute_taux_mortalite_par_age", "compute_deces_par_date",
            "compute_deces_par_age"}

\* the calls each command makes, in order
StepsOf(c) ==
    IF c = "all"
    THEN <<"init_db", "download_data", "import_data",
           "_compute_taux_mortalite_par_age", "compute_deces_par_date",
           "compute_deces_par_age">>
    ELSE IF c = "import_data.py" THEN <<"py_init_db", "py_import_data">>
    ELSE <<c>>

Commands == {"all", "init_db", "download_data", "import_data", "import_data.py"}
            \cup Reports

MaxImports == 2

\* the model stops importing into tables that hold MaxImports loads
MayImport ==
    /\ Len(ages) <= (MaxImports - 1) * 2 * NbPdaRows
    /\ Len(deces) <= (MaxImports - 1)
                     * (Len(files["deces-2017.txt"]) + Len(files["deces-2020.txt"]))

Init ==
    /\ DATE_RANGES \in DateRangesChoices
    /\ \E f17 \in Files2017, f20 \in Files2020 :
           files = [n \in {"deces-2017.txt", "deces-2020.txt"} |->
                       IF n = "deces-2017.txt" THEN f17 ELSE f20]
    /\ \E pair \in SheetPairs :
           sheets = [n \in {"pyramide-des-ages-2017.xls", "pyramide-des-ages-2020.xls"} |->
                        IF n = "pyramide-des-ages-2017.xls" THEN pair[1] ELSE pair[2]]
    /\ tables = {}
    /\ deces = <<>>
    /\ ages = <<>>
    /\ deaths = <<>>
    /\ cmd = "none"
    /\ todo = <<>>
    /\ outcome = [exc |-> "none", at |-> "none"]
    /\ nbQueries = 0
    /\ computed = NoReport
    /\ plotted = NoReport
    /\ args = NoCall
    /\ result = NotCalled

Calls(steps) == [i \in 1..Len(steps) |-> [call |-> steps[i], checked |-> FALSE]]

\* a new process starts on a command line
Invoke(c) ==
    /\ todo = <<>>
    /\ c \in {"import_data", "all"} => MayImport
    /\ cmd' = c
    /\ todo' = Calls(StepsOf(c))
    /\ outcome' = [exc |-> "none", at |-> "none"]
    /\ nbQueries' = 0
    /\ computed' = NoReport
    /\ plotted' = NoReport
    /\ UNCHANGED <<DATE_RANGES, files, sheets, tables, deces, ages, deaths, args, result>>

\* the step returned, or raised e and ended the process
Ended(step, e) ==
    /\ outcome' = [exc |-> e, at |-> step]
    /\ todo' = IF e = "none" THEN Tail(todo) ELSE <<>>

\* _init_db
InitDb ==
    /\ todo # <<>> /\ Head(todo).call = "init_db"
    /\ tables' = tables \cup {"deces", "ages"}
    /\ deces' = <<>>
    /\ ages' = <<>>
    /\ Ended("init_db", "none")
    /\ UNCHANGED <<DATE_RANGES, files, sheets, deaths, cmd, nbQueries, computed,
                   plotted, args, result>>

\* _download_data: every file is already in data/, nothing is fetched
DownloadData ==
    /\ todo # <<>> /\ Head(todo).call = "download_data"
    /\ Ended("download_data", "none")
    /\ UNCHANGED <<DATE_RANGES, files, sheets, tables, deces, ages, deaths, cmd,
                   nbQueries, computed, plotted, args, result>>

Imported(r) ==
    /\ deces' = r.deces
    /\ ages' = r.ages
    /\ Ended("import_data", r.exc)

\* _import_data
ImportDataStep ==
    /\ todo # <<>> /\ Head(todo).call = "import_data"
    /\ Imported(ImportData(files, sheets, tables, deces, ages))
    /\ UNCHANGED <<DATE_RANGES, files, sheets, tables, deaths, cmd, nbQueries,
                   computed, plotted, args, result>>

Checked(e) ==
    IF e = "none"
    THEN /\ todo' = [todo EXCEPT ![1].checked = TRUE]
         /\ outcome' = [exc |-> "none", at |-> "check"]
    ELSE Ended(Head(todo).call, e)

\* the first statement of each report: _assert_all_date_ranges_have_same_duration
ReportCheck ==
    /\ todo # <<>> /\ Head(todo).call \in Reports /\ ~Head(todo).checked
    /\ Checked(AssertAllDateRangesHaveSameDuration(DATE_RANGES))
    /\ UNCHANGED <<DATE_RANGES, files, sheets, tables, deces, ages, deaths, cmd,
                   nbQueries, computed, plotted, args, result>>

\* the rest of a report: its queries, then its plot
ReportBody(name, r) ==
    /\ todo # <<>> /\ Head(todo).call = name /\ Head(todo).checked
    /\ nbQueries' = nbQueries + r.queries
    /\ computed' = r.computed
    /\ plotted' = r.plotted
    /\ Ended(name, r.exc)
    /\ UNCHANGED <<DATE_RANGES, files, sheets, tables, deces, ages, deaths, cmd,
                   args, result>>

ComputeTauxMortaliteParAge ==
    ReportBody("_compute_taux_mortalite_par_age",
               TauxReport(DATE_RANGES, tables, deces, ages))

ComputeDecesParDate ==
    ReportBody("compute_deces_par_date", DateReport(DATE_RANGES, tables, deces))

ComputeDecesParAge ==
    ReportBody("compute_deces_par_age", PopReport(tables, ages))

\* import_data.py, _init_db
PyInitDb ==
    /\ todo # <<>> /\ Head(todo).call = "py_init_db"
    /\ tables' = tables \cup {"deaths"}
    /\ deaths' = <<>>
    /\ Ended("py_init_db", "none")
    /\ UNCHANGED <<DATE_RANGES, files, sheets, deces, ages, cmd, nbQueries,
                   computed, plotted, args, result>>

PyImported(r) ==
    /\ deaths' = IF r.exc = "none" THEN r.rows ELSE deaths
    /\ Ended("py_import_data", r.exc)

\* import_data.py, _import_data; glob returns the files in some order
PyImportData ==
    /\ todo # <<>> /\ Head(todo).call = "py_import_data"
    /\ \E order \in {<<"deces-2017.txt", "deces-2020.txt">>,
                     <<"deces-2020.txt", "deces-2017.txt">>} :
           PyImported(ImportTxtFiles(files, order, deaths))
    /\ UNCHANGED <<DATE_RANGES, files, sheets, tables, deces, ages, cmd, nbQueries,
                   computed, plotted, args, result>>

Next ==
    \/ \E c \in Commands : Invoke(c)
    \/ InitDb
    \/ DownloadData
    \/ ImportDataStep
    \/ ReportCheck
    \/ ComputeTauxMortaliteParAge
    \/ ComputeDecesParDate
    \/ ComputeDecesParAge
    \/ PyInitDb
    \/ PyImportData

Spec == Init /\ [][Next]_vars

(***************************************************************************)
(* Direct calls of _parse_date                                             *)
(***************************************************************************)
YearFields == {<<"0", "0", "0", "0">>, <<"1", "9", "4", "5">>, <<"2", "0", "1", "7">>}

MonthFields == {<<"0", "0">>, <<"0", "1">>, <<"1", "2">>, <<"1", "3">>}

DayFields == {<<"0", "0">>, <<"0", "1">>, <<"3", "1">>, <<"3", "2">>}

Defaults == {None, <<"0", "1">>, <<"0", "6">>, <<"1", "5">>}

InitParseDate ==
    /\ IdlePipeline
    /\ args \in [fn : {"_parse_date"},
                 val : {y \o m \o d : y \in YearFields, m \in MonthFields, d \in DayFields},
                 def_month : Defaults, def_day : Defaults]
    /\ result = NotCalled

CallParseDate ==
    /\ args.fn = "_parse_date"
    /\ ~result.called
    /\ result' = [called |-> TRUE, ret |-> ParseDate(args.val, args.def_month, args.def_day)]
    /\ UNCHANGED <<args, pipelineVars>>

SpecParseDate == InitParseDate /\ [][CallParseDate]_vars

(***************************************************************************)
(* Direct calls of the two ingesters on one file                           *)
(***************************************************************************)
InitIngest ==
    /\ IdlePipeline
    /\ args \in [fn : {"ingest"}, lines : SeqsUpTo(IngestLines, MaxLines)]
    /\ result = NotCalled

Ingested(by, exc, records, nb_errors) ==
    result' = [called |-> TRUE, by |-> by, exc |-> exc, records |-> records,
               nb_errors |-> nb_errors]

DecesFileParsed(r) == Ingested("run.py", r.exc, r.res, Len(r.errors))

TxtFileImported(r) ==
    Ingested("import_data.py", r.exc, r.rows, r.nb_errors.sex + r.nb_errors.date)

CallParseDecesFile ==
    /\ args.fn = "ingest"
    /\ ~result.called
    /\ DecesFileParsed(ParseDecesFile(args.lines))
    /\ UNCHANGED <<args, pipelineVars>>

CallImportTxtFile ==
    /\ args.fn = "ingest"
    /\ ~result.called
    /\ TxtFileImported(ImportTxtFile(args.lines))
    /\ UNCHANGED <<args, pipelineVars>>

SpecIngest == InitIngest /\ [][CallParseDecesFile \/ CallImportTxtFile]_vars

(***************************************************************************)
(* Direct calls of the age bucketing of the mortality report, on a table   *)
(* of one death                                                            *)
(***************************************************************************)
SampleYears == {1915, 1916, 1917, 1945, 2015, 2016, 2017, 2018}

SampleDays == {<<1, 5>>, <<1, 6>>, <<6, 15>>, <<12, 31>>}

SampleDates == {<<y, md[1], md[2]>> : y \in SampleYears, md \in SampleDays}

InitAge ==
    /\ IdlePipeline
    /\ args \in [fn : {"_compute_deces_par_age"}, naissance : SampleDates,
                 dc : SampleDates]
    /\ result = NotCalled

CallDecesParAge ==
    /\ args.fn = "_compute_deces_par_age"
    /\ ~result.called
    /\ result' = [called |-> TRUE,
                  ret |-> DecesParAgeLoop(
                      <<[sex |-> <<"M">>,
                         date_naissance |-> Iso(args.naissance[1], args.naissance[2],
                                                args.naissance[3]),
                         date_deces |-> Iso(args.dc[1], args.dc[2], args.dc[3])]>>,
                      1, EmptyDict)]
    /\ UNCHANGED <<args, pipelineVars>>

SpecAge == InitAge /\ [][CallDecesParAge]_vars

(***************************************************************************)
(* Direct calls of the inner _compute_taux_mortalite_par_age               *)
(***************************************************************************)
SampleAges == {1, 2, 100}

MaxCount == 2

\* the dicts with keys among S and values in V
Dicts(S, V) == UNION {[K -> V] : K \in SUBSET S}

InitTaux ==
    /\ IdlePipeline
    /\ args \in [fn : {"_compute_taux_mortalite_par_age"},
                 dcs : Dicts(SampleAges, 1..MaxCount),
                 pda : Dicts(SampleAges, 0..MaxCount)]
    /\ result = NotCalled

CallComputeTaux ==
    /\ args.fn = "_compute_taux_mortalite_par_age"
    /\ ~result.called
    /\ result' = [called |-> TRUE, ret |-> ComputeTaux(args.dcs, args.pda)]
    /\ UNCHANGED <<args, pipelineVars>>

SpecTaux == InitTaux /\ [][CallComputeTaux]_vars

(***************************************************************************)
(* The claims                                                              *)
(***************************************************************************)

\* C1: whatever the lines of a file, ingestion does not abort, and every
\* line gives one record or one counted error: records + errors = lines.
C1_IngestNeverAborts ==
    (args.fn = "ingest" /\ result.called) =>
        /\ result.exc = "none"
        /\ Len(result.records) + result.nb_errors = Len(args.lines)

\* the tables a second run of the command that just imported would leave
RunAgain ==
    IF cmd = "all" THEN ImportData(files, sheets, tables, <<>>, <<>>)
    ELSE ImportData(files, sheets, tables, deces, ages)

\* C2: once an import has succeeded, importing the same files again leaves
\* the deaths table and the population table with the same rows.
C2_ReimportIdempotent ==
    (outcome.at = "import_data" /\ outcome.exc = "none") =>
        /\ RunAgain.deces = deces
        /\ RunAgain.ages = ages

\* C3: on an 8-digit input _parse_date fails on year 0000; else on month 00
\* without a default month; else on day 00 without a default day; else it
\* returns year-month-day with each 00 replaced by its default.
C3_ParseDateRules ==
    (args.fn = "_parse_date" /\ result.called) =>
        LET y == SubSeq(args.val, 1, 4)
            m == SubSeq(args.val, 5, 6)
            d == SubSeq(args.val, 7, 8)
            fails == result.ret.exc = "DateParseError"
        IN  IF y = <<"0", "0", "0", "0">> THEN fails
            ELSE IF m = <<"0", "0">> /\ args.def_month = None THEN fails
            ELSE IF d = <<"0", "0">> /\ args.def_day = None THEN fails
            ELSE /\ result.ret.exc = "none"
                 /\ result.ret.val =
                        y \o <<"-">> \o (IF m = <<"0", "0">> THEN args.def_month ELSE m)
                        \o <<"-">> \o (IF d = <<"0", "0">> THEN args.def_day ELSE d)

\* C3, witness: month 00 and day 00 both replaced by their defaults
C3_Witness ==
    /\ args.fn = "_parse_date" /\ result.called
    /\ args.val = <<"1", "9", "4", "5", "0", "0", "0", "0">>
    /\ args.def_month = <<"0", "6">> /\ args.def_day = <<"1", "5">>
    /\ result.ret = Return(<<"1", "9", "4", "5", "-", "0", "6", "-", "1", "5">>)

\* C4: no stored death record carries a date that is not a day of the
\* calendar, so the aggregation can convert every stored date.
C4_StoredDatesAreCalendarDates ==
    \A i \in 1..Len(deces) :
        /\ ToDt(deces[i].date_naissance).exc = "none"
        /\ ToDt(deces[i].date_deces).exc = "none"

\* floor(days / 365.25), replaced by 100 above 100
FloorAgeCapped(days) ==
    IF (4 * days) \div 1461 > 100 THEN 100 ELSE (4 * days) \div 1461

\* C5: a death is counted in the bucket floor(days from birth to death /
\* 365.25), or 100 when that exceeds 100; a negative value is kept as it is.
C5_AgeIsCappedFloor ==
    (args.fn = "_compute_deces_par_age" /\ result.called) =>
        /\ result.ret.exc = "none"
        /\ DOMAIN result.ret.val =
               {FloorAgeCapped(Ordinal(args.dc[1], args.dc[2], args.dc[3])
                               - Ordinal(args.naissance[1], args.naissance[2],
                                         args.naissance[3]))}

\* C6: the rates are computed without a division by zero; the rate of an age
\* is deaths/population when the population is there and not zero, else 0.
C6_RateNeverDividesByZero ==
    (args.fn = "_compute_taux_mortalite_par_age" /\ result.called) =>
        /\ result.ret.exc = "none"
        /\ DOMAIN result.ret.val = DOMAIN args.dcs
        /\ \A age \in DOMAIN args.dcs :
               IF age \in DOMAIN args.pda /\ args.pda[age] # 0
               THEN result.ret.val[age] = [num |-> args.dcs[age], den |-> args.pda[age]]
               ELSE result.ret.val[age] = [num |-> 0, den |-> 1]

\* C6, witness: one age with a population, one with population 0, one with none
C6_Witness ==
    /\ args.fn = "_compute_taux_mortalite_par_age" /\ result.called
    /\ DOMAIN args.dcs = {1, 2, 100}
    /\ DOMAIN args.pda = {1, 2}
    /\ args.pda[1] = 0 /\ args.pda[2] = 2
    /\ result.ret.exc = "none"

\* end - start of window i, in days
DaysOf(ranges, i) == ToDt(ranges[i].range[2]).val - ToDt(ranges[i].range[1]).val

AllSameDuration(ranges) ==
    \A i, j \in 1..Len(ranges) : DaysOf(ranges, i) = DaysOf(ranges, j)

\* C7: a report issues a query or plots only after the check that all the
\* windows have the same duration has passed; when two windows differ the
\* report ends on the failed assertion with no query issued and no plot.
C7_CheckBeforeQueries ==
    /\ (nbQueries > 0 \/ plotted.kind # "none" \/ (todo # <<>> /\ Head(todo).checked))
           => AllSameDuration(DATE_RANGES)
    /\ (cmd \in Reports /\ todo = <<>> /\ ~AllSameDuration(DATE_RANGES))
           => (outcome.exc = "AssertionError" /\ nbQueries = 0 /\ plotted.kind = "none")

\* C7, witness: a report ended on the assertion; the first two windows agree
\* and the third differs
C7_Witness ==
    /\ cmd \in Reports /\ todo = <<>>
    /\ outcome.exc = "AssertionError"
    /\ Len(DATE_RANGES) = 3
    /\ DaysOf(DATE_RANGES, 1) = DaysOf(DATE_RANGES, 2)
    /\ DaysOf(DATE_RANGES, 1) # DaysOf(DATE_RANGES, 3)

RECURSIVE SumNb(_)
SumNb(rows) == IF rows = <<>> THEN 0 ELSE Head(rows).nb + SumNb(Tail(rows))

RECURSIVE RowsOfAge(_, _)
RowsOfAge(rows, age) ==
    IF rows = <<>> THEN <<>>
    ELSE (IF Head(rows).age = age THEN <<Head(rows)>> ELSE <<>>)
         \o RowsOfAge(Tail(rows), age)

SummedByAge(rows) ==
    [age \in {rows[i].age : i \in 1..Len(rows)} |-> SumNb(RowsOfAge(rows, age))]

\* C8: population-by-age maps each age to the sum of the counts of all the
\* stored rows of that year and age.
C8_PopulationIsSummed ==
    computed.kind = "pop" =>
        /\ computed.pop2017 = SummedByAge(SelectAges(ages, 2017))
        /\ computed.pop2020 = SummedByAge(SelectAges(ages, 2020))

PdaConfs == {DATA_FILES_CONFS[i] : i \in {3, 4}}

\* a cell of the age or nb column is empty in the rows the conf names
HasEmptyCell(conf, sheet) ==
    \E r \in conf.rows[1]..conf.rows[2] :
        /\ r <= Len(sheet)
        /\ \/ sheet[r][conf.cols.age] = EmptyCell
           \/ sheet[r][conf.cols.nb] = EmptyCell

\* C9: the population table holds, for each workbook, whole loads of its
\* rows firstRow..lastRow (lastRow - firstRow + 1 bins each, in that order),
\* and no row at all of a workbook with an empty age or count cell.
C9_PyramidAllOrNothing ==
    \A conf \in PdaConfs :
        LET rows == SelectAges(ages, conf.annee)
            sheet == sheets[conf.name]
            n == conf.rows[2] - conf.rows[1] + 1
        IN  /\ Len(rows) % n = 0
            /\ HasEmptyCell(conf, sheet) => rows = <<>>
            /\ \A k \in 1..Len(rows) :
                   sheet[conf.rows[1] + ((k - 1) % n)][conf.cols.nb] = Num(rows[k].nb)

\* C9, witness: an import aborted on the empty cell of a workbook, after an
\* earlier import had loaded nothing of it
C9_Witness ==
    /\ outcome.at = "import_data" /\ outcome.exc = "AssertionError"
    /\ "ages" \in tables
    /\ \E conf \in PdaConfs : HasEmptyCell(conf, sheets[conf.name])
    /\ ages = <<>>

\* the stored records the aggregation reads as dying on day number day
DiedOn(day) == {i \in 1..Len(deces) : ToDt(deces[i].date_deces) = Return(day)}

SeriesIsExact(series, range) ==
    LET start == ToDt(range[1]).val
        end == ToDt(range[2]).val
    IN  /\ Len(series) = end - start + 1
        /\ \A k \in 1..Len(series) : series[k] = Cardinality(DiedOn(start + k - 1))

\* C10: the deaths-by-date series handed to plotting has one entry per day
\* of the window, first to last, each the number of stored records whose
\* death date is that day; so the two series have the same length.
C10_SeriesCoversWindow ==
    plotted.kind = "date" =>
        /\ SeriesIsExact(plotted.y2017, RangeOf(DATE_RANGES, Grippe))
        /\ SeriesIsExact(plotted.y2020, RangeOf(DATE_RANGES, Covid))
        /\ Len(plotted.y2017) = Len(plotted.y2020)

====
